---- MODULE Spec2Model ----
(***************************************************************************)
(* Model of the booking API of Backers/index.js: the bookings and          *)
(* resources tables behind the pool, the booking-creation handler (conflict*)
(* query, then insert), the start/finish/cancel handlers, the resource     *)
(* delete handler (soft update, or the hard-delete transaction) and the    *)
(* requireAuth guard.                                                      *)
(*                                                                         *)
(* Several specifications share the same tables and statement operators:   *)
(*   Spec        the two multi-statement handlers (POST /api/bookings and  *)
(*               the hard delete) are split at their awaits, so that two   *)
(*               requests interleave their store calls;                    *)
(*   SpecCreate, SpecLife, SpecDelete and the later ones                   *)
(*               every handler runs to completion before the next request  *)
(*               (one action per handler), each over its own inputs.       *)
(*                                                                         *)
(* Not modelled: the optional pass-through columns of a booking (quantity, *)
(* requester_name, requester_role, purpose), which no handler reads back.  *)
(***************************************************************************)
EXTENDS Integers, FiniteSets, TLC

\* ------------------------------------------------------------------------
\* Bounds
\* ------------------------------------------------------------------------
\* ids handed out by the bookings id sequence
MaxBookings == 2
\* last value of the store clock NOW()
MaxNow == 2

\* SQL NULL in an integer or timestamp column (timestamps start at 1)
NULL == 0

\* resources, bookings: the two tables; bookingSeq: the last id the bookings
\* id sequence handed out; now: the store clock; procs: the handlers in
\* flight; req, res: the request answered last and its response;
\* resourceSeq: the last id the resources id sequence handed out; client:
\* the pooled connection the resource delete handler works on
VARIABLES resources, bookings, bookingSeq, now, procs, req, res, resourceSeq, client

vars == <<resources, bookings, bookingSeq, now, procs, req, res, resourceSeq, client>>

\* the two request handlers that may be in flight together
Procs == {"h1", "h2"}

\* ------------------------------------------------------------------------
\* Request inputs
\* ------------------------------------------------------------------------
\* req.session.user: absent, or a user with the given role
Sessions == {"none", "ADMIN", "STAFF", "USER"}
\* a body of POST /api/bookings whose required fields are all present and
\* parsable ("T2b" is the instant T2 written with another offset)
FullBodies ==
  [kind : {"room", "LAB"}, resource_id : {1, 2}, resource_name : {"A"},
   start_dt : {"T1", "T2", "T2b", "T3"}, end_dt : {"T1", "T2", "T3"}]
BaseBody ==
  [kind |-> "room", resource_id |-> 1, resource_name |-> "A",
   start_dt |-> "T1", end_dt |-> "T2"]
\* bodies with one field missing ("" or 0) or one date unparsable ("bad")
DefectBodies ==
  {[BaseBody EXCEPT !.kind = ""], [BaseBody EXCEPT !.resource_id = 0],
   [BaseBody EXCEPT !.resource_name = ""], [BaseBody EXCEPT !.start_dt = ""],
   [BaseBody EXCEPT !.end_dt = ""], [BaseBody EXCEPT !.start_dt = "bad"],
   [BaseBody EXCEPT !.end_dt = "bad"]}
Bodies == FullBodies \cup DefectBodies
\* :id of a booking route
BookingIdInputs == 1..MaxBookings
\* :id of the resource route ("x" is not a number, "3" names no resource)
ResourceParamInputs == {"1", "2", "3", "x"}
\* ?hard= / ?mode= of the resource route
HardInputs == {"", "0", "1", "true", " Hard "}

\* ------------------------------------------------------------------------
\* Conversions
\* ------------------------------------------------------------------------
\* String(kind).toUpperCase()
ToUpperCase(s) ==
  CASE s = "room" -> "ROOM"
    [] OTHER -> s

\* the time value of new Date(s); NaN is NULL here
DateValue(s) ==
  CASE s = "T1" -> 1
    [] s = "T2" -> 2
    [] s = "T2b" -> 2
    [] s = "T3" -> 3
    [] OTHER -> NULL

\* start instanceof Date && !isNaN(start)
IsValidDate(s) == DateValue(s) # NULL

\* Number(req.params.id); NaN is NULL here
ToNumber(s) ==
  CASE s = "1" -> 1
    [] s = "2" -> 2
    [] s = "3" -> 3
    [] OTHER -> NULL

\* Number.isInteger(id)
IsInteger(n) == n # NULL

\* String(hard || mode || '').toLowerCase().trim() is '1', 'true' or 'hard'
IsHard(q) ==
  LET hardQ == CASE q = " Hard " -> "hard"
                 [] OTHER -> q
  IN  hardQ = "1" \/ hardQ = "true" \/ hardQ = "hard"

\* ------------------------------------------------------------------------
\* requireAuth(['ADMIN','STAFF']): 0 lets the request through to the handler
\* ------------------------------------------------------------------------
\* a guard that tests the role before the presence of a user
requireAuthRoleFirst(sess) ==
  IF sess \notin {"ADMIN", "STAFF"} THEN 403
  ELSE IF sess = "none" THEN 401
  ELSE 0

requireAuth(sess) ==
  IF sess = "none" THEN 401
  ELSE IF sess \notin {"ADMIN", "STAFF"} THEN 403
  ELSE 0

\* the error of the guard's 401 and 403 responses
AuthError(sess) ==
  IF sess = "none" THEN "Unauthorized: Please login"
  ELSE "Forbidden: Insufficient permissions"

\* ------------------------------------------------------------------------
\* Statements on the bookings and resources tables
\* ------------------------------------------------------------------------
ActiveStatuses == {"REQUEST", "ONGOING"}
TerminalStatuses == {"SUCCESS", "CANCEL"}

\* a WHERE clause that also matches a window touching the row's at a boundary
ConflictWhereClosed(b, kind, rid, start, end) ==
  /\ b.kind = kind
  /\ b.resource_id = rid
  /\ b.status \in ActiveStatuses
  /\ ~(end < b.start_dt \/ start > b.end_dt)

\* the WHERE clause of the conflict query, for the row b
ConflictWhere(b, kind, rid, start, end) ==
  /\ b.kind = kind
  /\ b.resource_id = rid
  /\ b.status \in ActiveStatuses
  /\ ~(end <= b.start_dt \/ start >= b.end_dt)

\* the rows the conflict query of POST /api/bookings selects
ConflictRows(bk, kind, rid, start, end) ==
  {b \in bk : ConflictWhere(b, kind, rid, start, end)}

\* the row INSERT INTO bookings ... RETURNING * creates
NewBooking(id, kind, rid, name, start, end, t) ==
  [id |-> id, kind |-> kind, resource_id |-> rid, resource_name |-> name,
   start_dt |-> start, end_dt |-> end, status |-> "REQUEST",
   created_at |-> t, updated_at |-> t,
   started_at |-> NULL, ended_at |-> NULL, canceled_at |-> NULL]

\* UPDATE bookings SET status='ONGOING', started_at=NOW(), updated_at=NOW()
StartRow(b, t) ==
  [b EXCEPT !.status = "ONGOING", !.started_at = t, !.updated_at = t]

\* an UPDATE that stamps started_at where ended_at is meant
FinishRowStampsStart(b, t) ==
  [b EXCEPT !.status = "SUCCESS", !.started_at = t, !.updated_at = t]

\* UPDATE bookings SET status='SUCCESS', ended_at=NOW(), updated_at=NOW()
FinishRow(b, t) ==
  [b EXCEPT !.status = "SUCCESS", !.ended_at = t, !.updated_at = t]

\* an UPDATE that stamps ended_at on cancel
CancelRowStampsEnd(b, t) ==
  [b EXCEPT !.status = "CANCEL", !.ended_at = t, !.updated_at = t]

\* UPDATE bookings SET status='CANCEL', canceled_at=NOW(), updated_at=NOW()
CancelRow(b, t) ==
  [b EXCEPT !.status = "CANCEL", !.canceled_at = t, !.updated_at = t]

\* the rows of DELETE FROM bookings WHERE resource_id = $1 AND status IN
\* ('SUCCESS','CANCEL')
TerminalRows(bk, rid) ==
  {b \in bk : b.resource_id = rid /\ b.status \in TerminalStatuses}

\* the rows of ... FROM resources WHERE id = $1
ResourceRows(rs, rid) == {r \in rs : r.id = rid}

\* an UPDATE that puts the resource under maintenance instead
InactiveRowMaintenance(r, t) == [r EXCEPT !.status = "Maintenance", !.updated_at = t]

\* UPDATE resources SET status = 'Inactive', updated_at = NOW()
InactiveRow(r, t) == [r EXCEPT !.status = "Inactive", !.updated_at = t]

\* ------------------------------------------------------------------------
\* In-flight handlers and the rows their open transactions hold
\* ------------------------------------------------------------------------
\* pc: the await the handler is at; r: its request; delB, delR: the ids of
\* the booking and resource rows its open transaction has deleted
IdleProc == [pc |-> "idle", r |-> [op |-> "none"], delB |-> {}, delR |-> {}]

\* ids of the booking rows deleted by a transaction that is still open
LockedBookings == UNION {procs[p].delB : p \in Procs}
\* ids of the resource rows deleted by a transaction that is still open
LockedResources == UNION {procs[p].delR : p \in Procs}

\* the connection while it sits in the pool.  out: checked out by a handler;
\* tx: a transaction is open on it; released: the calls of client.release()
\* made by the request that checked it out last
PooledClient == [out |-> FALSE, tx |-> FALSE, released |-> 0]

\* res.status(code).json({error}) to the request r (error is "" on success)
Respond(r, code, error) ==
  /\ req' = r
  /\ res' = [code |-> code, error |-> error]

\* ------------------------------------------------------------------------
\* Initial state: an empty bookings table and two registered resources
\* ------------------------------------------------------------------------
Resource(id, kind, name) ==
  [id |-> id, kind |-> kind, name |-> name, subcategory |-> NULL,
   type |-> NULL, quantity |-> 1, status |-> "Available", updated_at |-> 1]

Init ==
  /\ resources = {Resource(1, "ROOM", "A"), Resource(2, "LAB", "B")}
  /\ bookings = {}
  /\ bookingSeq = 0
  /\ now = 1
  /\ procs = [p \in Procs |-> IdleProc]
  /\ req = [op |-> "none"]
  /\ res = [code |-> 0, error |-> ""]
  /\ resourceSeq = 2
  /\ client = PooledClient

\* the store clock advances
Tick ==
  /\ now < MaxNow
  /\ now' = now + 1
  /\ UNCHANGED <<resources, bookings, bookingSeq, procs, req, res, resourceSeq, client>>

\* ------------------------------------------------------------------------
\* POST /api/bookings
\* ------------------------------------------------------------------------
\* checks that let a zero-length window through
CreateValidationStrict(body) ==
  IF \/ body.kind = "" \/ body.resource_id = 0 \/ body.resource_name = ""
     \/ body.start_dt = "" \/ body.end_dt = ""
    THEN "Missing required fields"
  ELSE IF ~IsValidDate(body.start_dt) \/ ~IsValidDate(body.end_dt)
    THEN "Invalid datetime format"
  ELSE IF DateValue(body.end_dt) < DateValue(body.start_dt)
    THEN "End time must be after start time"
  ELSE ""

\* the checks made before the conflict query: the error of the 400 response,
\* or "" when the body passes
CreateValidation(body) ==
  IF \/ body.kind = "" \/ body.resource_id = 0 \/ body.resource_name = ""
     \/ body.start_dt = "" \/ body.end_dt = ""
    THEN "Missing required fields"
  ELSE IF ~IsValidDate(body.start_dt) \/ ~IsValidDate(body.end_dt)
    THEN "Invalid datetime format"
  ELSE IF DateValue(body.end_dt) <= DateValue(body.start_dt)
    THEN "End time must be after start time"
  ELSE ""

CreateRequest(body) == [op |-> "create", body |-> body]

\* what the bookings table itself refuses: the schema is not part of the
\* handlers' file; no constraint across rows (an exclusion constraint on the
\* window, a foreign key to resources) is described for it, and no handler
\* reacts to the violation of one
BookingsTableAccepts(bk) == TRUE

\* INSERT INTO bookings ... VALUES (..., 'REQUEST', ..., NOW(), NOW())
InsertBooking(kind, rid, name, start, end) ==
  /\ bookingSeq < MaxBookings
  /\ BookingsTableAccepts(bookings \cup
        {NewBooking(bookingSeq + 1, kind, rid, name, start, end, now)})
  /\ bookingSeq' = bookingSeq + 1
  /\ bookings' = bookings \cup
       {NewBooking(bookingSeq + 1, kind, rid, name, start, end, now)}

\* a handler that inserts first and looks for the conflict afterwards
PostBookingsInsertFirst(body) ==
  /\ IF CreateValidation(body) # ""
       THEN /\ Respond(CreateRequest(body), 400, CreateValidation(body))
            /\ UNCHANGED <<bookings, bookingSeq>>
     ELSE /\ InsertBooking(ToUpperCase(body.kind), body.resource_id, body.resource_name,
                           DateValue(body.start_dt), DateValue(body.end_dt))
          /\ IF ConflictRows(bookings, ToUpperCase(body.kind), body.resource_id,
                             DateValue(body.start_dt), DateValue(body.end_dt)) # {}
               THEN Respond(CreateRequest(body), 409, "CONFLICT")
               ELSE Respond(CreateRequest(body), 201, "")
  /\ UNCHANGED <<resources, now, procs, resourceSeq, client>>

\* the whole handler, run without interruption
PostBookings(body) ==
  /\ IF CreateValidation(body) # ""
       THEN /\ Respond(CreateRequest(body), 400, CreateValidation(body))
            /\ UNCHANGED <<bookings, bookingSeq>>
     ELSE IF ConflictRows(bookings, ToUpperCase(body.kind), body.resource_id,
                          DateValue(body.start_dt), DateValue(body.end_dt)) # {}
       THEN /\ Respond(CreateRequest(body), 409, "CONFLICT")
            /\ UNCHANGED <<bookings, bookingSeq>>
     ELSE /\ InsertBooking(ToUpperCase(body.kind), body.resource_id, body.resource_name,
                           DateValue(body.start_dt), DateValue(body.end_dt))
          /\ Respond(CreateRequest(body), 201, "")
  /\ UNCHANGED <<resources, now, procs, resourceSeq, client>>

\* ------------------------------------------------------------------------
\* POST /api/bookings/:id/start | finish | cancel: one UPDATE each.  The
\* UPDATE waits while an open transaction holds the row.
\* ------------------------------------------------------------------------
BookingRequest(op, sess, id) == [op |-> op, sess |-> sess, id |-> id]

\* a handler that answers 200 whether or not the UPDATE found a row
TransitionResponseAlwaysOk(r, rows) == Respond(r, 200, "")

\* if (upd.rowCount === 0) return 404; otherwise the updated row
TransitionResponse(r, rows) ==
  IF rows = {} THEN Respond(r, 404, "Not found") ELSE Respond(r, 200, "")

\* the rows of UPDATE bookings ... WHERE id = $1
BookingRows(bk, id) == {b \in bk : b.id = id}

PostBookingStart(sess, id) ==
  /\ IF requireAuth(sess) # 0
       THEN /\ Respond(BookingRequest("start", sess, id), requireAuth(sess), AuthError(sess))
            /\ UNCHANGED bookings
     ELSE /\ id \notin LockedBookings
          /\ bookings' = {IF b.id = id THEN StartRow(b, now) ELSE b : b \in bookings}
          /\ TransitionResponse(BookingRequest("start", sess, id), BookingRows(bookings, id))
  /\ UNCHANGED <<resources, bookingSeq, now, procs, resourceSeq, client>>

PostBookingFinish(sess, id) ==
  /\ IF requireAuth(sess) # 0
       THEN /\ Respond(BookingRequest("finish", sess, id), requireAuth(sess), AuthError(sess))
            /\ UNCHANGED bookings
     ELSE /\ id \notin LockedBookings
          /\ bookings' = {IF b.id = id THEN FinishRow(b, now) ELSE b : b \in bookings}
          /\ TransitionResponse(BookingRequest("finish", sess, id), BookingRows(bookings, id))
  /\ UNCHANGED <<resources, bookingSeq, now, procs, resourceSeq, client>>

PostBookingCancel(sess, id) ==
  /\ IF requireAuth(sess) # 0
       THEN /\ Respond(BookingRequest("cancel", sess, id), requireAuth(sess), AuthError(sess))
            /\ UNCHANGED bookings
     ELSE /\ id \notin LockedBookings
          /\ bookings' = {IF b.id = id THEN CancelRow(b, now) ELSE b : b \in bookings}
          /\ TransitionResponse(BookingRequest("cancel", sess, id), BookingRows(bookings, id))
  /\ UNCHANGED <<resources, bookingSeq, now, procs, resourceSeq, client>>

\* ------------------------------------------------------------------------
\* DELETE /api/resources/:id
\* ------------------------------------------------------------------------
DeleteRequest(sess, idParam, hardQ) ==
  [op |-> "delete", sess |-> sess, id |-> idParam, hard |-> hardQ]

\* the paths that open no transaction: the guard's refusals, an invalid id,
\* and the soft delete (one UPDATE)
DeleteResourceSoft(sess, idParam, hardQ) ==
  /\ requireAuth(sess) # 0 \/ ~IsInteger(ToNumber(idParam)) \/ ~IsHard(hardQ)
  /\ IF requireAuth(sess) # 0
       THEN /\ Respond(DeleteRequest(sess, idParam, hardQ), requireAuth(sess), AuthError(sess))
            /\ UNCHANGED resources
     ELSE IF ~IsInteger(ToNumber(idParam))
       THEN /\ Respond(DeleteRequest(sess, idParam, hardQ), 400, "invalid id")
            /\ UNCHANGED resources
     ELSE /\ ToNumber(idParam) \notin LockedResources
          /\ resources' = {IF r.id = ToNumber(idParam) THEN InactiveRow(r, now) ELSE r :
                             r \in resources}
          /\ IF ResourceRows(resources, ToNumber(idParam)) = {}
               THEN Respond(DeleteRequest(sess, idParam, hardQ), 404, "not found")
               ELSE Respond(DeleteRequest(sess, idParam, hardQ), 204, "")
  /\ UNCHANGED <<bookings, bookingSeq, now, procs, resourceSeq, client>>

\* a check that looks for ONGOING bookings only
ActiveRowsOngoingOnly(bk, rid) ==
  {b \in bk : b.resource_id = rid /\ b.status = "ONGOING"}

\* the rows of SELECT 1 FROM bookings WHERE resource_id = $1 AND status IN
\* ('REQUEST','ONGOING')
ActiveRows(bk, rid) ==
  {b \in bk : b.resource_id = rid /\ b.status \in ActiveStatuses}

\* the two DELETEs run outside a transaction: nothing is rolled back
HardDeleteOutcomeNoRollback(bk, rs, rid) ==
  IF ResourceRows(rs, rid) = {}
    THEN [code |-> 404, error |-> "not found",
          bookings |-> bk \ TerminalRows(bk, rid), resources |-> rs]
    ELSE [code |-> 204, error |-> "",
          bookings |-> bk \ TerminalRows(bk, rid),
          resources |-> rs \ ResourceRows(rs, rid)]

\* the transaction after the active-booking check: DELETE the terminal
\* bookings, DELETE the resource; ROLLBACK and 404 when no resource row was
\* deleted, COMMIT and 204 otherwise
HardDeleteOutcome(bk, rs, rid) ==
  IF ResourceRows(rs, rid) = {}
    THEN [code |-> 404, error |-> "not found", bookings |-> bk, resources |-> rs]
    ELSE [code |-> 204, error |-> "",
          bookings |-> bk \ TerminalRows(bk, rid),
          resources |-> rs \ ResourceRows(rs, rid)]

\* the hard delete, run without interruption: BEGIN, the active-booking
\* check (ROLLBACK and 409 when it finds a row), then the rest of the
\* transaction
DeleteResourceHard(sess, idParam, hardQ) ==
  /\ requireAuth(sess) = 0
  /\ IsInteger(ToNumber(idParam))
  /\ IsHard(hardQ)
  /\ IF ActiveRows(bookings, ToNumber(idParam)) # {}
       THEN /\ Respond(DeleteRequest(sess, idParam, hardQ), 409, "in_use")
            /\ UNCHANGED <<resources, bookings>>
     ELSE /\ bookings' = HardDeleteOutcome(bookings, resources, ToNumber(idParam)).bookings
          /\ resources' = HardDeleteOutcome(bookings, resources, ToNumber(idParam)).resources
          /\ Respond(DeleteRequest(sess, idParam, hardQ),
                     HardDeleteOutcome(bookings, resources, ToNumber(idParam)).code,
                     HardDeleteOutcome(bookings, resources, ToNumber(idParam)).error)
  /\ UNCHANGED <<bookingSeq, now, procs, resourceSeq, client>>

\* ------------------------------------------------------------------------
\* The two multi-statement handlers, one action per store call
\* ------------------------------------------------------------------------
\* POST /api/bookings up to the conflict query's result: a 400, a 409, or on
\* to the INSERT
PostBookingsQuery(p, body) ==
  /\ procs[p].pc = "idle"
  /\ IF CreateValidation(body) # ""
       THEN /\ Respond(CreateRequest(body), 400, CreateValidation(body))
            /\ UNCHANGED procs
     ELSE IF ConflictRows(bookings, ToUpperCase(body.kind), body.resource_id,
                          DateValue(body.start_dt), DateValue(body.end_dt)) # {}
       THEN /\ Respond(CreateRequest(body), 409, "CONFLICT")
            /\ UNCHANGED procs
     ELSE /\ procs' = [procs EXCEPT ![p] =
                         [IdleProc EXCEPT !.pc = "insert", !.r = CreateRequest(body)]]
          /\ UNCHANGED <<req, res>>
  /\ UNCHANGED <<resources, bookings, bookingSeq, now, resourceSeq, client>>

\* POST /api/bookings from the INSERT to the 201
PostBookingsInsert(p) ==
  /\ procs[p].pc = "insert"
  /\ InsertBooking(ToUpperCase(procs[p].r.body.kind), procs[p].r.body.resource_id,
                   procs[p].r.body.resource_name, DateValue(procs[p].r.body.start_dt),
                   DateValue(procs[p].r.body.end_dt))
  /\ Respond(procs[p].r, 201, "")
  /\ procs' = [procs EXCEPT ![p] = IdleProc]
  /\ UNCHANGED <<resources, now, resourceSeq, client>>

\* the rows other handlers' open transactions hold
LockedBookingsOf(others) == UNION {procs[q].delB : q \in others}
LockedResourcesOf(others) == UNION {procs[q].delR : q \in others}

\* the hard delete up to BEGIN
DeleteBegin(p, sess, idParam, hardQ) ==
  /\ procs[p].pc = "idle"
  /\ requireAuth(sess) = 0
  /\ IsInteger(ToNumber(idParam))
  /\ IsHard(hardQ)
  /\ procs' = [procs EXCEPT ![p] =
                 [IdleProc EXCEPT !.pc = "check", !.r = DeleteRequest(sess, idParam, hardQ)]]
  /\ UNCHANGED <<resources, bookings, bookingSeq, now, req, res, resourceSeq, client>>

\* the active-booking check: ROLLBACK and 409, or on to the DELETEs
DeleteCheck(p) ==
  /\ procs[p].pc = "check"
  /\ IF ActiveRows(bookings, ToNumber(procs[p].r.id)) # {}
       THEN /\ Respond(procs[p].r, 409, "in_use")
            /\ procs' = [procs EXCEPT ![p] = IdleProc]
     ELSE /\ procs' = [procs EXCEPT ![p].pc = "deleteBookings"]
          /\ UNCHANGED <<req, res>>
  /\ UNCHANGED <<resources, bookings, bookingSeq, now, resourceSeq, client>>

\* DELETE FROM bookings ... ('SUCCESS','CANCEL'): waits for the rows another
\* open transaction holds; the rows stay visible to others until COMMIT
DeleteBookings(p) ==
  /\ procs[p].pc = "deleteBookings"
  /\ \A b \in TerminalRows(bookings, ToNumber(procs[p].r.id)) :
       b.id \notin LockedBookingsOf(Procs \ {p})
  /\ procs' = [procs EXCEPT
                 ![p].pc = "deleteResource",
                 ![p].delB = {b.id : b \in TerminalRows(bookings, ToNumber(procs[p].r.id))}]
  /\ UNCHANGED <<resources, bookings, bookingSeq, now, req, res, resourceSeq, client>>

\* DELETE FROM resources WHERE id = $1, and the test of its rowCount
DeleteResourceRow(p) ==
  /\ procs[p].pc = "deleteResource"
  /\ ToNumber(procs[p].r.id) \notin LockedResourcesOf(Procs \ {p})
  /\ IF ResourceRows(resources, ToNumber(procs[p].r.id)) = {}
       THEN procs' = [procs EXCEPT ![p].pc = "rollback"]
       ELSE procs' = [procs EXCEPT ![p].pc = "commit",
                                   ![p].delR = {ToNumber(procs[p].r.id)}]
  /\ UNCHANGED <<resources, bookings, bookingSeq, now, req, res, resourceSeq, client>>

\* ROLLBACK and 404: the deleted booking rows are back
DeleteRollback(p) ==
  /\ procs[p].pc = "rollback"
  /\ Respond(procs[p].r, 404, "not found")
  /\ procs' = [procs EXCEPT ![p] = IdleProc]
  /\ UNCHANGED <<resources, bookings, bookingSeq, now, resourceSeq, client>>

\* COMMIT and 204: the deleted rows are gone for everyone
DeleteCommit(p) ==
  /\ procs[p].pc = "commit"
  /\ bookings' = {b \in bookings : b.id \notin procs[p].delB}
  /\ resources' = {r \in resources : r.id \notin procs[p].delR}
  /\ Respond(procs[p].r, 204, "")
  /\ procs' = [procs EXCEPT ![p] = IdleProc]
  /\ UNCHANGED <<bookingSeq, now, resourceSeq, client>>

\* ------------------------------------------------------------------------
\* Requests interleaved at their store calls: two handlers at a time create
\* bookings on resource 1 and hard-delete it, while staff start, finish and
\* cancel bookings in any order and soft-delete the resource; the clock
\* stands still
\* ------------------------------------------------------------------------
RaceBodies == {BaseBody, [BaseBody EXCEPT !.start_dt = "T2", !.end_dt = "T3"]}

Next ==
  \/ \E p \in Procs, body \in RaceBodies : PostBookingsQuery(p, body)
  \/ \E p \in Procs : PostBookingsInsert(p)
  \/ \E id \in BookingIdInputs : PostBookingStart("STAFF", id)
  \/ \E id \in BookingIdInputs : PostBookingFinish("STAFF", id)
  \/ \E id \in BookingIdInputs : PostBookingCancel("STAFF", id)
  \/ DeleteResourceSoft("ADMIN", "1", "")
  \/ \E p \in Procs : DeleteBegin(p, "ADMIN", "1", "true")
  \/ \E p \in Procs : DeleteCheck(p)
  \/ \E p \in Procs : DeleteBookings(p)
  \/ \E p \in Procs : DeleteResourceRow(p)
  \/ \E p \in Procs : DeleteRollback(p)
  \/ \E p \in Procs : DeleteCommit(p)

Spec == Init /\ [][Next]_vars

\* ------------------------------------------------------------------------
\* Booking creation against bookings in every status: requests are handled
\* one at a time, staff move bookings along REQUEST -> ONGOING -> SUCCESS or
\* cancel an active booking, the clock stands still
\* ------------------------------------------------------------------------
NextCreate ==
  \/ \E body \in Bodies : PostBookings(body)
  \/ \E b \in bookings : b.status = "REQUEST" /\ PostBookingStart("STAFF", b.id)
  \/ \E b \in bookings : b.status = "ONGOING" /\ PostBookingFinish("STAFF", b.id)
  \/ \E b \in bookings : b.status \in ActiveStatuses /\ PostBookingCancel("ADMIN", b.id)

SpecCreate == Init /\ [][NextCreate]_vars

\* ------------------------------------------------------------------------
\* The booking lifecycle: requests are handled one at a time, in any order
\* and on any booking id, while the clock advances; a hard delete removes
\* the terminal bookings of resource 1
\* ------------------------------------------------------------------------
LifeBodies == {BaseBody, [BaseBody EXCEPT !.start_dt = "T2", !.end_dt = "T3"]}
LifeSessions == {"ADMIN", "STAFF", "USER"}

NextLife ==
  \/ Tick
  \/ \E body \in LifeBodies : PostBookings(body)
  \/ \E sess \in LifeSessions, id \in BookingIdInputs : PostBookingStart(sess, id)
  \/ \E sess \in LifeSessions, id \in BookingIdInputs : PostBookingFinish(sess, id)
  \/ \E sess \in LifeSessions, id \in BookingIdInputs : PostBookingCancel(sess, id)
  \/ DeleteResourceHard("ADMIN", "1", "true")

SpecLife == Init /\ [][NextLife]_vars

\* ------------------------------------------------------------------------
\* Resource deletion: requests are handled one at a time; bookings are made
\* on both resources and on the id of a deleted resource, staff move them
\* along REQUEST -> ONGOING -> SUCCESS or cancel an active one, the clock
\* stands still
\* ------------------------------------------------------------------------
DeleteBodies ==
  {BaseBody, [BaseBody EXCEPT !.start_dt = "T2", !.end_dt = "T3"],
   [BaseBody EXCEPT !.kind = "LAB", !.resource_id = 2]}
DeleteSessions == {"ADMIN", "USER"}
DeleteHardInputs == {"", "true", " Hard "}

NextDelete ==
  \/ \E body \in DeleteBodies : PostBookings(body)
  \/ \E b \in bookings : b.status = "REQUEST" /\ PostBookingStart("STAFF", b.id)
  \/ \E b \in bookings : b.status = "ONGOING" /\ PostBookingFinish("STAFF", b.id)
  \/ \E b \in bookings : b.status \in ActiveStatuses /\ PostBookingCancel("ADMIN", b.id)
  \/ \E sess \in DeleteSessions, idParam \in ResourceParamInputs,
        hardQ \in DeleteHardInputs : DeleteResourceSoft(sess, idParam, hardQ)
  \/ \E sess \in DeleteSessions, idParam \in ResourceParamInputs,
        hardQ \in DeleteHardInputs : DeleteResourceHard(sess, idParam, hardQ)

SpecDelete == Init /\ [][NextDelete]_vars

\* ------------------------------------------------------------------------
\* POST /api/resources and PATCH /api/resources/:id
\* ------------------------------------------------------------------------
\* ids handed out by the resources id sequence
MaxResources == 4

\* A request body is a record of values together with the set of its keys
\* that are present (body.keys); the value of an absent key is never read.
\* Values of subcategory and type are numbered from 1 (NULL is no value).
Field(body, k, default) == IF k \in body.keys THEN body[k] ELSE default

ResourceStatuses == {"Available", "Maintenance", "Inactive"}

ResourceCreateRequest(sess, body) ==
  [op |-> "createResource", sess |-> sess, body |-> body]

\* checks that let a negative quantity through
ResourceValidationAnyQuantity(body) ==
  IF Field(body, "kind", "") = "" \/ Field(body, "name", "") = ""
    THEN "kind and name are required"
  ELSE IF Field(body, "status", "Available") \notin ResourceStatuses
    THEN "invalid status"
  ELSE ""

\* the checks made before the INSERT, with quantity = 1 and
\* status = 'Available' when the key is absent: the error of the 400
\* response, or "" when the body passes
ResourceValidation(body) ==
  IF Field(body, "kind", "") = "" \/ Field(body, "name", "") = ""
    THEN "kind and name are required"
  ELSE IF Field(body, "quantity", 1) < 0
    THEN "quantity must be >= 0"
  ELSE IF Field(body, "status", "Available") \notin ResourceStatuses
    THEN "invalid status"
  ELSE ""

\* a row that stores the kind as it was sent
NewResourceRawKind(id, body, t) ==
  [id |-> id, kind |-> body.kind, name |-> body.name,
   subcategory |-> Field(body, "subcategory", NULL),
   type |-> Field(body, "type", NULL),
   quantity |-> Field(body, "quantity", 1),
   status |-> Field(body, "status", "Available"), updated_at |-> t]

\* the row of INSERT INTO resources (kind, name, subcategory, type, quantity,
\* status) VALUES (String(kind).toUpperCase(), name, subcategory ?? null,
\* type ?? null, quantity, status)
NewResource(id, body, t) ==
  [id |-> id, kind |-> ToUpperCase(body.kind), name |-> body.name,
   subcategory |-> Field(body, "subcategory", NULL),
   type |-> Field(body, "type", NULL),
   quantity |-> Field(body, "quantity", 1),
   status |-> Field(body, "status", "Available"), updated_at |-> t]

\* what the resources table itself refuses with error 23505, which both
\* handlers answer as 'Duplicate resource name for this kind': two rows with
\* the same kind and name.  The schema is not part of the handlers' file.
ResourcesTableAccepts(rs) ==
  \A r1 \in rs, r2 \in rs : (r1.kind = r2.kind /\ r1.name = r2.name) => r1.id = r2.id

\* the whole handler; a refused INSERT has taken its id from the sequence
PostResources(sess, body) ==
  /\ IF requireAuth(sess) # 0
       THEN /\ Respond(ResourceCreateRequest(sess, body), requireAuth(sess), AuthError(sess))
            /\ UNCHANGED <<resources, resourceSeq>>
     ELSE IF ResourceValidation(body) # ""
       THEN /\ Respond(ResourceCreateRequest(sess, body), 400, ResourceValidation(body))
            /\ UNCHANGED <<resources, resourceSeq>>
     ELSE /\ resourceSeq < MaxResources
          /\ resourceSeq' = resourceSeq + 1
          /\ IF ResourcesTableAccepts(resources \cup {NewResource(resourceSeq + 1, body, now)})
               THEN /\ resources' = resources \cup {NewResource(resourceSeq + 1, body, now)}
                    /\ Respond(ResourceCreateRequest(sess, body), 201, "")
               ELSE /\ Respond(ResourceCreateRequest(sess, body), 409,
                               "Duplicate resource name for this kind")
                    /\ UNCHANGED resources
  /\ UNCHANGED <<bookings, bookingSeq, now, procs, client>>

ResourcePatchRequest(sess, idParam, body) ==
  [op |-> "patchResource", sess |-> sess, id |-> idParam, body |-> body]

\* const allowed = ['name', 'subcategory', 'type', 'quantity', 'status']
AllowedFields == {"name", "subcategory", "type", "quantity", "status"}

\* the keys of input: the keys of the body that are allow-listed
InputKeys(body) == body.keys \cap AllowedFields

\* the checks made before the UPDATE: the error of the 400 response, or ""
PatchValidation(body) ==
  IF InputKeys(body) = {}
    THEN "no fields to update"
  ELSE IF "quantity" \in InputKeys(body) /\ body.quantity < 0
    THEN "quantity must be >= 0"
  ELSE IF "status" \in InputKeys(body) /\ body.status \notin ResourceStatuses
    THEN "invalid status"
  ELSE ""

\* the row after UPDATE resources SET <the fields of input>, updated_at = NOW()
PatchedRow(r, body, t) ==
  [id |-> r.id, kind |-> r.kind,
   name |-> IF "name" \in InputKeys(body) THEN body.name ELSE r.name,
   subcategory |-> IF "subcategory" \in InputKeys(body) THEN body.subcategory
                   ELSE r.subcategory,
   type |-> IF "type" \in InputKeys(body) THEN body.type ELSE r.type,
   quantity |-> IF "quantity" \in InputKeys(body) THEN body.quantity ELSE r.quantity,
   status |-> IF "status" \in InputKeys(body) THEN body.status ELSE r.status,
   updated_at |-> t]

\* the table after the UPDATE ... WHERE id = $n
PatchedTable(rs, id, body, t) ==
  {IF r.id = id THEN PatchedRow(r, body, t) ELSE r : r \in rs}

\* the whole handler; the UPDATE waits while an open transaction holds the row
PatchResources(sess, idParam, body) ==
  /\ IF requireAuth(sess) # 0
       THEN /\ Respond(ResourcePatchRequest(sess, idParam, body),
                       requireAuth(sess), AuthError(sess))
            /\ UNCHANGED resources
     ELSE IF ~IsInteger(ToNumber(idParam))
       THEN /\ Respond(ResourcePatchRequest(sess, idParam, body), 400, "invalid id")
            /\ UNCHANGED resources
     ELSE IF PatchValidation(body) # ""
       THEN /\ Respond(ResourcePatchRequest(sess, idParam, body), 400, PatchValidation(body))
            /\ UNCHANGED resources
     ELSE /\ ToNumber(idParam) \notin LockedResources
          /\ IF ResourceRows(resources, ToNumber(idParam)) = {}
               THEN /\ Respond(ResourcePatchRequest(sess, idParam, body), 404, "not found")
                    /\ UNCHANGED resources
             ELSE IF ~ResourcesTableAccepts(
                        PatchedTable(resources, ToNumber(idParam), body, now))
               THEN /\ Respond(ResourcePatchRequest(sess, idParam, body), 409,
                               "Duplicate resource name for this kind")
                    /\ UNCHANGED resources
             ELSE /\ resources' = PatchedTable(resources, ToNumber(idParam), body, now)
                  /\ Respond(ResourcePatchRequest(sess, idParam, body), 200, "")
  /\ UNCHANGED <<bookings, bookingSeq, now, procs, resourceSeq, client>>

\* ------------------------------------------------------------------------
\* Claims on interleaved requests (Spec)
\* ------------------------------------------------------------------------
\* C1: no two distinct stored bookings of the same kind and resource, both
\* in REQUEST or ONGOING, have overlapping half-open windows
\* [start_dt, end_dt).
C1_NoActiveOverlap ==
  \A b1 \in bookings, b2 \in bookings :
    (/\ b1.id # b2.id
     /\ b1.kind = b2.kind /\ b1.resource_id = b2.resource_id
     /\ b1.status \in {"REQUEST", "ONGOING"}
     /\ b2.status \in {"REQUEST", "ONGOING"}) =>
      (b1.end_dt <= b2.start_dt \/ b2.end_dt <= b1.start_dt)

\* C2: the conflict check and the insert of a creation are one atomic step:
\* whenever a handler completes its INSERT and answers 201, no stored booking
\* of the same kind and resource in REQUEST or ONGOING overlaps the window
\* it inserts (so of two concurrent overlapping creations one is refused).
C2_CheckThenInsertAtomic ==
  [][\A p \in Procs :
       (procs[p].pc = "insert" /\ procs'[p].pc = "idle") =>
         ~\E x \in bookings :
            /\ x.kind = ToUpperCase(procs[p].r.body.kind)
            /\ x.resource_id = procs[p].r.body.resource_id
            /\ (x.status = "REQUEST" \/ x.status = "ONGOING")
            /\ ~(x.end_dt <= DateValue(procs[p].r.body.start_dt)
                 \/ x.start_dt >= DateValue(procs[p].r.body.end_dt))]_vars

\* ------------------------------------------------------------------------
\* Claims on booking creation (SpecCreate)
\* ------------------------------------------------------------------------
\* the step answers a request of the given kind (the clock's own step leaves
\* the last request in place)
Answers(op) == req'.op = op /\ now' = now

\* every required field is present and both dates parse
WellFormed(body) ==
  /\ body.kind # "" /\ body.resource_id # 0 /\ body.resource_name # ""
  /\ body.start_dt \in {"T1", "T2", "T2b", "T3"}
  /\ body.end_dt \in {"T1", "T2", "T2b", "T3"}

\* some stored booking of the same kind and resource, in REQUEST or ONGOING,
\* satisfies NOT(existing.end <= start OR existing.start >= end)
Overlapped(kind, rid, start, end) ==
  \E x \in bookings :
    /\ x.kind = kind /\ x.resource_id = rid
    /\ (x.status = "REQUEST" \/ x.status = "ONGOING")
    /\ ~(x.end_dt <= start \/ x.start_dt >= end)

\* C3: a valid creation request handled on its own answers 409 CONFLICT
\* exactly when an active booking of the same upper-cased kind and the same
\* resource overlaps the requested half-open window; otherwise it answers 201
\* and adds exactly one booking, in REQUEST, with the requested values.
C3_ConflictIffOverlap ==
  [][(/\ Answers("create")
      /\ WellFormed(req'.body)
      /\ DateValue(req'.body.end_dt) > DateValue(req'.body.start_dt)) =>
       IF Overlapped(ToUpperCase(req'.body.kind), req'.body.resource_id,
                     DateValue(req'.body.start_dt), DateValue(req'.body.end_dt))
         THEN res'.code = 409 /\ res'.error = "CONFLICT"
         ELSE /\ res'.code = 201
              /\ \E n \in bookings' :
                   /\ n \notin bookings
                   /\ bookings' = bookings \cup {n}
                   /\ n.status = "REQUEST"
                   /\ n.kind = ToUpperCase(req'.body.kind)
                   /\ n.resource_id = req'.body.resource_id
                   /\ n.start_dt = DateValue(req'.body.start_dt)
                   /\ n.end_dt = DateValue(req'.body.end_dt)]_vars

\* C3 witness: a booking was accepted (201) that starts at the instant at
\* which an active booking of its kind and resource ends.
C3_Witness ==
  /\ req.op = "create" /\ res.code = 201
  /\ \E n \in bookings, x \in bookings :
       /\ n.id = bookingSeq /\ x.id # n.id
       /\ x.kind = n.kind /\ x.resource_id = n.resource_id
       /\ x.status \in {"REQUEST", "ONGOING"}
       /\ x.end_dt = n.start_dt

\* C4: a creation request whose fields are all present and parsable but whose
\* end is not after its start is answered 400 with the end-after-start error,
\* whatever the stored bookings, and stores nothing.
C4_EndNotAfterStartRejected ==
  [][(/\ Answers("create")
      /\ WellFormed(req'.body)
      /\ DateValue(req'.body.end_dt) <= DateValue(req'.body.start_dt)) =>
       /\ res'.code = 400
       /\ res'.error = "End time must be after start time"
       /\ bookings' = bookings
       /\ bookingSeq' = bookingSeq]_vars

\* C4 witness: the end-after-start error was answered to a request whose
\* inverted window covers an active booking of its kind and resource.
C4_Witness ==
  /\ req.op = "create" /\ res.code = 400
  /\ res.error = "End time must be after start time"
  /\ \E x \in bookings :
       /\ x.status \in {"REQUEST", "ONGOING"}
       /\ x.kind = ToUpperCase(req.body.kind)
       /\ x.resource_id = req.body.resource_id
       /\ DateValue(req.body.end_dt) <= x.start_dt
       /\ x.end_dt <= DateValue(req.body.start_dt)

\* C5: a creation request answered 409 CONFLICT changes no booking, no
\* resource and not the id sequence.
C5_ConflictNoSideEffects ==
  [][(Answers("create") /\ res'.code = 409) =>
       /\ bookings' = bookings
       /\ resources' = resources
       /\ bookingSeq' = bookingSeq]_vars

\* C5 witness: a creation was answered CONFLICT with bookings stored.
C5_Witness ==
  /\ req.op = "create" /\ res.code = 409 /\ res.error = "CONFLICT"
  /\ bookings # {}

\* ------------------------------------------------------------------------
\* Claims on the booking lifecycle (SpecLife)
\* ------------------------------------------------------------------------
LifecycleEdges ==
  {<<"REQUEST", "ONGOING">>, <<"ONGOING", "SUCCESS">>,
   <<"REQUEST", "CANCEL">>, <<"ONGOING", "CANCEL">>}

\* C6: in every step, a booking that is new is in REQUEST, and a booking
\* whose status changes moves along REQUEST->ONGOING, ONGOING->SUCCESS,
\* REQUEST->CANCEL or ONGOING->CANCEL; so a booking in SUCCESS or CANCEL
\* keeps its status for as long as it is stored.
C6_LifecycleEdgesOnly ==
  [][/\ \A n \in bookings' :
          (\A b \in bookings : b.id # n.id) => n.status = "REQUEST"
     /\ \A b \in bookings, n \in bookings' :
          (b.id = n.id /\ b.status # n.status) =>
            <<b.status, n.status>> \in LifecycleEdges]_vars

\* the request answered by the step came through requireAuth
Authorized == req'.sess = "ADMIN" \/ req'.sess = "STAFF"

\* C7: for an existing booking and an authorized caller, start answers 200,
\* sets status ONGOING and started_at to the clock, finish sets SUCCESS and
\* ended_at, cancel sets CANCEL and canceled_at; each sets updated_at to the
\* clock and leaves every other field of that booking, every other booking
\* and every resource as it was.
C7_TransitionsStamp ==
  [][(/\ req'.op \in {"start", "finish", "cancel"}
      /\ now' = now
      /\ Authorized
      /\ \E b \in bookings : b.id = req'.id) =>
       /\ res'.code = 200
       /\ resources' = resources
       /\ bookingSeq' = bookingSeq
       /\ bookings' =
            {IF b.id # req'.id THEN b
             ELSE IF req'.op = "start"
               THEN [b EXCEPT !.status = "ONGOING", !.started_at = now, !.updated_at = now]
             ELSE IF req'.op = "finish"
               THEN [b EXCEPT !.status = "SUCCESS", !.ended_at = now, !.updated_at = now]
             ELSE [b EXCEPT !.status = "CANCEL", !.canceled_at = now, !.updated_at = now] :
             b \in bookings}]_vars

\* C7 witness: a finish was answered 200 for a booking created at an earlier
\* clock value, which is now in SUCCESS with ended_at and updated_at at the
\* clock, while another booking is stored.
C7_Witness ==
  /\ req.op = "finish" /\ res.code = 200
  /\ \E b \in bookings, o \in bookings :
       /\ b.id = req.id /\ o.id # b.id
       /\ b.status = "SUCCESS"
       /\ b.created_at < now /\ b.ended_at = now /\ b.updated_at = now

\* C8: a start, finish or cancel request that reaches its handler with an id
\* no stored booking has is answered 404 and changes no booking and no
\* resource.
C8_MissingBookingNotFound ==
  [][(/\ req'.op \in {"start", "finish", "cancel"}
      /\ now' = now
      /\ Authorized
      /\ \A b \in bookings : b.id # req'.id) =>
       /\ res'.code = 404
       /\ bookings' = bookings
       /\ resources' = resources
       /\ bookingSeq' = bookingSeq]_vars

\* C8 witness: 404 was answered to a cancel of a booking id that the id
\* sequence handed out and a hard delete has removed.
C8_Witness ==
  /\ req.op = "cancel" /\ res.code = 404
  /\ req.id <= bookingSeq
  /\ \A b \in bookings : b.id # req.id

\* ------------------------------------------------------------------------
\* Claims on the hard delete (SpecDelete)
\* ------------------------------------------------------------------------
\* the step answers a hard delete of an integer id that came through
\* requireAuth
AnswersHardDelete ==
  /\ Answers("delete")
  /\ Authorized
  /\ req'.id \in {"1", "2", "3"}
  /\ req'.hard \in {"1", "true", " Hard "}

\* C9: a hard delete of a resource id that a booking in REQUEST or ONGOING
\* references is answered 409 in_use and changes no resource and no booking.
C9_InUseUnchanged ==
  [][(/\ AnswersHardDelete
      /\ \E b \in bookings :
           /\ b.resource_id = ToNumber(req'.id)
           /\ (b.status = "REQUEST" \/ b.status = "ONGOING")) =>
       /\ res'.code = 409 /\ res'.error = "in_use"
       /\ resources' = resources
       /\ bookings' = bookings]_vars

\* C9 witness: in_use was answered for a stored resource that has a booking
\* in REQUEST and a terminal booking.
C9_Witness ==
  /\ req.op = "delete" /\ res.code = 409 /\ res.error = "in_use"
  /\ \E r \in resources, a \in bookings, t \in bookings :
       /\ r.id = ToNumber(req.id)
       /\ a.resource_id = r.id /\ a.status = "REQUEST"
       /\ t.resource_id = r.id /\ t.status \in {"SUCCESS", "CANCEL"}

\* C10: a hard delete of a resource id that no booking in REQUEST or ONGOING
\* references: if the resource is stored, it answers 204 and removes, in one
\* step, that resource and every booking that references it, and nothing
\* else; if it is not stored, it answers 404 and removes nothing.
C10_HardDeleteCascades ==
  [][(/\ AnswersHardDelete
      /\ \A b \in bookings :
           b.resource_id = ToNumber(req'.id) => b.status \in {"SUCCESS", "CANCEL"}) =>
       IF \E r \in resources : r.id = ToNumber(req'.id)
         THEN /\ res'.code = 204
              /\ resources' = {r \in resources : r.id # ToNumber(req'.id)}
              /\ bookings' = {b \in bookings : b.resource_id # ToNumber(req'.id)}
         ELSE /\ res'.code = 404
              /\ resources' = resources
              /\ bookings' = bookings]_vars

\* C10 witness: 204 was answered, the resource is gone, one of the two
\* bookings made is gone and the one left is of the other resource.
C10_Witness ==
  /\ req.op = "delete" /\ res.code = 204
  /\ req.hard \in {"1", "true", " Hard "}
  /\ \A r \in resources : r.id # ToNumber(req.id)
  /\ bookingSeq = 2 /\ Cardinality(bookings) = 1
  /\ \A b \in bookings : b.resource_id # ToNumber(req.id)

\* ------------------------------------------------------------------------
\* Claims on the hard delete interleaved with other requests (Spec)
\* ------------------------------------------------------------------------
\* C11: whenever a hard delete commits, no booking in REQUEST or ONGOING
\* references the resource it removes: right after the COMMIT no active
\* booking has the removed resource's id as its resource_id.
C11_CommitLeavesNoActiveBooking ==
  [][\A p \in Procs :
       (procs[p].pc = "commit" /\ procs'[p].pc = "idle") =>
         \A b \in bookings' :
           b.resource_id \in procs[p].delR => b.status \notin {"REQUEST", "ONGOING"}]_vars

\* ------------------------------------------------------------------------
\* Soft deletion while the clock advances: requests are handled one at a
\* time; bookings are made on both resources and an admin cancels them
\* ------------------------------------------------------------------------
SoftBodies == {BaseBody, [BaseBody EXCEPT !.kind = "LAB", !.resource_id = 2]}
SoftSessions == {"ADMIN", "USER"}
SoftHardInputs == {"", "0"}

NextSoft ==
  \/ Tick
  \/ \E body \in SoftBodies : PostBookings(body)
  \/ \E b \in bookings : b.status = "REQUEST" /\ PostBookingCancel("ADMIN", b.id)
  \/ \E sess \in SoftSessions, idParam \in ResourceParamInputs,
        hardQ \in SoftHardInputs : DeleteResourceSoft(sess, idParam, hardQ)

SpecSoft == Init /\ [][NextSoft]_vars

\* ------------------------------------------------------------------------
\* Claims on the soft delete (SpecSoft)
\* ------------------------------------------------------------------------
\* the step answers a delete without the hard flag, of an integer id, that
\* came through requireAuth
AnswersSoftDelete ==
  /\ Answers("delete")
  /\ Authorized
  /\ req'.id \in {"1", "2", "3"}
  /\ req'.hard \in {"", "0"}

\* C12 as stated: a soft delete of a stored resource answers 204 and changes
\* nothing but that resource's status, which becomes Inactive: every other
\* field of the row, every other resource and every booking stay as they
\* were; on an id that is not stored it answers 404 and changes nothing.
C12_SoftDeleteSetsOnlyStatus ==
  [][AnswersSoftDelete =>
       /\ bookings' = bookings
       /\ bookingSeq' = bookingSeq
       /\ IF \E r \in resources : r.id = ToNumber(req'.id)
            THEN /\ res'.code = 204
                 /\ resources' =
                      {IF r.id = ToNumber(req'.id) THEN [r EXCEPT !.status = "Inactive"]
                       ELSE r : r \in resources}
            ELSE /\ res'.code = 404
                 /\ resources' = resources]_vars

\* C12 amended: a soft delete of a stored resource answers 204, keeps the
\* row, sets its status to Inactive and its updated_at to the clock, and
\* changes no other field of it, no other resource and no booking; on an id
\* that is not stored it answers 404 and changes nothing.
C12_SoftDeleteSetsStatusAndStamp ==
  [][AnswersSoftDelete =>
       /\ bookings' = bookings
       /\ bookingSeq' = bookingSeq
       /\ IF \E r \in resources : r.id = ToNumber(req'.id)
            THEN /\ res'.code = 204
                 /\ resources' =
                      {IF r.id = ToNumber(req'.id)
                         THEN [r EXCEPT !.status = "Inactive", !.updated_at = now]
                       ELSE r : r \in resources}
            ELSE /\ res'.code = 404
                 /\ resources' = resources]_vars

\* C12 witness: 204 was answered to a soft delete made after the clock
\* advanced; the resource is stored, Inactive and stamped with the clock,
\* and an active and a terminal booking reference it.
C12_Witness ==
  /\ req.op = "delete" /\ res.code = 204 /\ req.hard \in {"", "0"}
  /\ \E r \in resources, a \in bookings, t \in bookings :
       /\ r.id = ToNumber(req.id)
       /\ r.status = "Inactive" /\ r.updated_at = now /\ now > 1
       /\ a.resource_id = r.id /\ a.status \in {"REQUEST", "ONGOING"}
       /\ t.resource_id = r.id /\ t.status \in {"SUCCESS", "CANCEL"}

\* ------------------------------------------------------------------------
\* The guard in front of the six guarded routes: requests are handled one at
\* a time, each guarded route is called with every kind of session (the
\* booking routes on the first booking and on an id that is never stored),
\* and bookings are created on resource 1; the clock stands still
\* ------------------------------------------------------------------------
\* a body of POST /api/resources or PATCH /api/resources/:id with the given
\* keys present
ResourceBody(keys, kind, name, quantity, status) ==
  [keys |-> keys, kind |-> kind, name |-> name, subcategory |-> 1, type |-> 1,
   quantity |-> quantity, status |-> status]

GuardCreateBody == ResourceBody({"kind", "name"}, "room", "B", 1, "Available")
GuardPatchBody == ResourceBody({"status"}, "", "", 1, "Maintenance")
GuardHardInputs == {"", "true"}
\* :id of the booking routes: a booking that is stored once one was created,
\* and one that never is
GuardBookingIds == {1, MaxBookings + 1}

NextGuard ==
  \/ PostBookings(BaseBody)
  \/ \E sess \in Sessions : PostResources(sess, GuardCreateBody)
  \/ \E sess \in Sessions : PatchResources(sess, "1", GuardPatchBody)
  \/ \E sess \in Sessions, hardQ \in GuardHardInputs : DeleteResourceSoft(sess, "1", hardQ)
  \/ \E sess \in Sessions : DeleteResourceHard(sess, "1", "true")
  \/ \E sess \in Sessions, id \in GuardBookingIds : PostBookingStart(sess, id)
  \/ \E sess \in Sessions, id \in GuardBookingIds : PostBookingFinish(sess, id)
  \/ \E sess \in Sessions, id \in GuardBookingIds : PostBookingCancel(sess, id)

SpecGuard == Init /\ [][NextGuard]_vars

\* ------------------------------------------------------------------------
\* Claims on the guard (SpecGuard)
\* ------------------------------------------------------------------------
\* the routes registered with requireAuth(['ADMIN', 'STAFF'])
GuardedOps ==
  {"createResource", "patchResource", "delete", "start", "finish", "cancel"}

\* C13: a request to a guarded route (resource create, update, delete;
\* booking start, finish, cancel) without a session user is answered 401
\* (not 403), one whose role is neither ADMIN nor STAFF is answered 403, and
\* in both cases no resource, no booking and neither id sequence changes.
C13_GuardRefuses ==
  [][(req'.op \in GuardedOps /\ now' = now) =>
       /\ req'.sess = "none" =>
            /\ res'.code = 401
            /\ resources' = resources /\ bookings' = bookings
            /\ resourceSeq' = resourceSeq /\ bookingSeq' = bookingSeq
       /\ req'.sess \notin {"none", "ADMIN", "STAFF"} =>
            /\ res'.code = 403
            /\ resources' = resources /\ bookings' = bookings
            /\ resourceSeq' = resourceSeq /\ bookingSeq' = bookingSeq]_vars

\* C13 witness: 401 was answered to a cancel without session, of a stored
\* booking that is still in REQUEST.
C13_Witness ==
  /\ req.op = "cancel" /\ req.sess = "none" /\ res.code = 401
  /\ \E b \in bookings : b.id = req.id /\ b.status = "REQUEST"

\* ------------------------------------------------------------------------
\* The resource registry: staff create, update and delete resources, one
\* request at a time; the clock stands still
\* ------------------------------------------------------------------------
\* bodies of POST /api/resources: a name taken within ROOM (kind in lower
\* case), two free names, a negative quantity, an unknown status, no kind
ResCreateBodies ==
  {ResourceBody({"kind", "name"}, "room", "A", 1, "Available"),
   ResourceBody({"kind", "name"}, "room", "B", 1, "Available"),
   ResourceBody({"kind", "name", "quantity", "status"}, "LAB", "A", 0, "Maintenance"),
   ResourceBody({"kind", "name", "quantity"}, "room", "B", -1, "Available"),
   ResourceBody({"kind", "name", "status"}, "room", "B", 1, "Broken"),
   ResourceBody({"name"}, "", "B", 1, "Available")}

\* bodies of PATCH /api/resources/:id: renames, quantities, statuses, no key,
\* keys that are not allow-listed (kind), alone and next to a rename
ResPatchBodies ==
  {ResourceBody({"name"}, "", "A", 1, "Available"),
   ResourceBody({"name"}, "", "B", 1, "Available"),
   ResourceBody({"quantity"}, "", "", -1, "Available"),
   ResourceBody({"quantity", "subcategory"}, "", "", 2, "Available"),
   ResourceBody({"status"}, "", "", 1, "Inactive"),
   ResourceBody({"status"}, "", "", 1, "Broken"),
   ResourceBody({}, "", "", 1, "Available"),
   ResourceBody({"kind"}, "LAB", "", 1, "Available"),
   ResourceBody({"kind", "name"}, "LAB", "A", 1, "Available")}

NextRes ==
  \/ \E body \in ResCreateBodies : PostResources("STAFF", body)
  \/ \E idParam \in ResourceParamInputs, body \in ResPatchBodies :
       PatchResources("ADMIN", idParam, body)
  \/ DeleteResourceSoft("ADMIN", "1", "")
  \/ DeleteResourceHard("ADMIN", "2", "true")

SpecRes == Init /\ [][NextRes]_vars

\* ------------------------------------------------------------------------
\* Claims on the resource registry (SpecRes)
\* ------------------------------------------------------------------------
\* some stored resource other than the one with the given id has this kind
\* (compared upper-cased) and name
NameTaken(id, kind, name) ==
  \E o \in resources :
    o.id # id /\ ToUpperCase(o.kind) = ToUpperCase(kind) /\ o.name = name

\* C14: no two stored resources have the same name and, compared upper-cased,
\* the same kind; a create that passes validation and whose upper-cased kind
\* and name are those of a stored resource, and an update that passes
\* validation and renames a stored resource to the name of another resource
\* of its kind, are answered 409 and leave every resource unchanged.
C14_UniqueKindName ==
  /\ [](\A r1 \in resources, r2 \in resources :
          (ToUpperCase(r1.kind) = ToUpperCase(r2.kind) /\ r1.name = r2.name) =>
            r1.id = r2.id)
  /\ [][/\ (/\ Answers("createResource")
            /\ Authorized
            /\ {"kind", "name"} \subseteq req'.body.keys
            /\ req'.body.kind # "" /\ req'.body.name # ""
            /\ ("quantity" \in req'.body.keys => req'.body.quantity >= 0)
            /\ ("status" \in req'.body.keys =>
                  req'.body.status \in {"Available", "Maintenance", "Inactive"})
            /\ NameTaken(NULL, req'.body.kind, req'.body.name)) =>
             (res'.code = 409 /\ resources' = resources)
        /\ (/\ Answers("patchResource")
            /\ Authorized
            /\ "name" \in req'.body.keys
            /\ ("quantity" \in req'.body.keys => req'.body.quantity >= 0)
            /\ ("status" \in req'.body.keys =>
                  req'.body.status \in {"Available", "Maintenance", "Inactive"})
            /\ \E r \in resources :
                 /\ r.id = ToNumber(req'.id)
                 /\ NameTaken(r.id, r.kind, req'.body.name)) =>
             (res'.code = 409 /\ resources' = resources)]_vars

\* C14 witness: 409 was answered to the rename of a resource that was
\* created through the API to the name of another resource of its kind.
C14_Witness ==
  /\ req.op = "patchResource" /\ res.code = 409
  /\ \E r \in resources :
       /\ r.id = ToNumber(req.id) /\ r.id > 2
       /\ r.name # req.body.name
       /\ NameTaken(r.id, r.kind, req.body.name)

\* C17: every stored resource has a status among Available, Maintenance and
\* Inactive and a quantity >= 0; a create or an update that carries a
\* negative quantity or a status outside the three is answered 400 and
\* leaves the resources unchanged; an update none of whose keys is
\* allow-listed is answered 400 and leaves the resources unchanged; and no
\* update changes the id or the kind of a resource.
C17_StatusAndQuantityValid ==
  /\ [](\A r \in resources :
          r.status \in {"Available", "Maintenance", "Inactive"} /\ r.quantity >= 0)
  /\ [][/\ (/\ (Answers("createResource") \/ Answers("patchResource"))
            /\ Authorized
            /\ \/ "quantity" \in req'.body.keys /\ req'.body.quantity < 0
               \/ /\ "status" \in req'.body.keys
                  /\ req'.body.status \notin {"Available", "Maintenance", "Inactive"}) =>
             (res'.code = 400 /\ resources' = resources)
        /\ (/\ Answers("patchResource")
            /\ Authorized
            /\ req'.body.keys \cap {"name", "subcategory", "type", "quantity", "status"} = {}) =>
             (res'.code = 400 /\ resources' = resources)
        /\ Answers("patchResource") =>
             {<<r.id, r.kind>> : r \in resources'} = {<<r.id, r.kind>> : r \in resources}]_vars

\* C17 witness: 400 was answered to an update of a stored resource whose body
\* has only the key kind, with another kind than the resource's, while a
\* resource with quantity 0 is stored.
C17_Witness ==
  /\ req.op = "patchResource" /\ res.code = 400
  /\ req.body.keys = {"kind"}
  /\ \E r \in resources : r.id = ToNumber(req.id) /\ r.kind # req.body.kind
  /\ \E r \in resources : r.quantity = 0

\* ------------------------------------------------------------------------
\* Claims on who changes the tables (SpecGuard)
\* ------------------------------------------------------------------------
\* C16: every step that changes the stored resources or the stored bookings
\* answers a request whose session carries a user with role ADMIN or STAFF.
\* (A request record has the field sess when its route is registered with
\* requireAuth; the request of POST /api/bookings has none, because the route
\* is reached whatever the session is, also without one.)
C16_ChangesNeedStaffSession ==
  [][(resources' # resources \/ bookings' # bookings) =>
       (/\ "sess" \in DOMAIN req'
        /\ (req'.sess = "ADMIN" \/ req'.sess = "STAFF"))]_vars

\* ------------------------------------------------------------------------
\* Claims on the lifecycle timestamps (SpecLife)
\* ------------------------------------------------------------------------
\* C18: every stored booking in ONGOING has started_at set, every one in
\* SUCCESS has ended_at set, every one in CANCEL has canceled_at set, and
\* every one in REQUEST (no transition leads back to REQUEST) has none of
\* the three set.
C18_StatusTimestamps ==
  \A b \in bookings :
    /\ b.status = "ONGOING" => b.started_at # NULL
    /\ b.status = "SUCCESS" => b.ended_at # NULL
    /\ b.status = "CANCEL" => b.canceled_at # NULL
    /\ b.status = "REQUEST" =>
         (b.started_at = NULL /\ b.ended_at = NULL /\ b.canceled_at = NULL)

\* C18 witness: a booking was cancelled and started again (ONGOING with both
\* stamps set) while another booking is still in REQUEST.
C18_Witness ==
  \E b \in bookings, o \in bookings :
    /\ b.status = "ONGOING" /\ b.started_at # NULL /\ b.canceled_at # NULL
    /\ o.status = "REQUEST"

\* ------------------------------------------------------------------------
\* Store calls that fail.  The resource delete handler, one action per store
\* call; ok tells whether the call succeeds.  A call that fails rejects and
\* leaves the tables as they were.
\* ------------------------------------------------------------------------
\* client.release() in the finally block
Release(c) == [c EXCEPT !.out = FALSE, !.released = @ + 1]

\* a response sent from inside the try or catch block, followed by the
\* finally block: the handler is done
Finish(p, code, error) ==
  /\ Respond(procs[p].r, code, error)
  /\ procs' = [procs EXCEPT ![p] = IdleProc]

\* const client = await pool.connect(), before the try block: when it
\* rejects, the rejection leaves the handler (pc "escaped": nothing in the
\* handler answers the request any more); otherwise the id is parsed, and an
\* invalid id is answered 400 before any store call
DeleteConnect(p, sess, idParam, hardQ, ok) ==
  /\ procs[p].pc = "idle"
  /\ requireAuth(sess) = 0
  /\ IF ~ok
       THEN /\ procs' = [procs EXCEPT ![p] =
                           [IdleProc EXCEPT !.pc = "escaped",
                                            !.r = DeleteRequest(sess, idParam, hardQ)]]
            /\ UNCHANGED <<client, req, res>>
     ELSE IF ~IsInteger(ToNumber(idParam))
       THEN /\ Respond(DeleteRequest(sess, idParam, hardQ), 400, "invalid id")
            /\ client' = Release([client EXCEPT !.out = TRUE, !.released = 0])
            /\ UNCHANGED procs
     ELSE /\ procs' = [procs EXCEPT ![p] =
                         [IdleProc EXCEPT !.pc = IF IsHard(hardQ) THEN "beginTx"
                                                  ELSE "softUpdate",
                                          !.r = DeleteRequest(sess, idParam, hardQ)]]
          /\ client' = [client EXCEPT !.out = TRUE, !.released = 0]
          /\ UNCHANGED <<req, res>>
  /\ UNCHANGED <<resources, bookings, bookingSeq, now, resourceSeq>>

\* a failed call inside the try block: on to the catch block
ToCatch(p) ==
  /\ procs' = [procs EXCEPT ![p].pc = "catch"]
  /\ UNCHANGED <<resources, bookings, client, req, res>>

\* the soft path: pool.query(UPDATE resources SET status = 'Inactive' ...)
DeleteSoftUpdate(p, ok) ==
  /\ procs[p].pc = "softUpdate"
  /\ IF ~ok THEN ToCatch(p)
     ELSE /\ resources' = {IF r.id = ToNumber(procs[p].r.id) THEN InactiveRow(r, now)
                           ELSE r : r \in resources}
          /\ IF ResourceRows(resources, ToNumber(procs[p].r.id)) = {}
               THEN Finish(p, 404, "not found")
               ELSE Finish(p, 204, "")
          /\ client' = Release(client)
          /\ UNCHANGED bookings
  /\ UNCHANGED <<bookingSeq, now, resourceSeq>>

\* client.query('BEGIN')
DeleteBeginTx(p, ok) ==
  /\ procs[p].pc = "beginTx"
  /\ IF ~ok THEN ToCatch(p)
     ELSE /\ procs' = [procs EXCEPT ![p].pc = "activeCheck"]
          /\ client' = [client EXCEPT !.tx = TRUE]
          /\ UNCHANGED <<resources, bookings, req, res>>
  /\ UNCHANGED <<bookingSeq, now, resourceSeq>>

\* the active-booking SELECT
DeleteActiveCheck(p, ok) ==
  /\ procs[p].pc = "activeCheck"
  /\ IF ~ok THEN ToCatch(p)
     ELSE /\ procs' = [procs EXCEPT ![p].pc =
                         IF ActiveRows(bookings, ToNumber(procs[p].r.id)) # {}
                           THEN "inUseRollback" ELSE "terminalBookings"]
          /\ UNCHANGED <<resources, bookings, client, req, res>>
  /\ UNCHANGED <<bookingSeq, now, resourceSeq>>

\* client.query('ROLLBACK') and the 409 in_use
DeleteInUseRollback(p, ok) ==
  /\ procs[p].pc = "inUseRollback"
  /\ IF ~ok THEN ToCatch(p)
     ELSE /\ Finish(p, 409, "in_use")
          /\ client' = Release([client EXCEPT !.tx = FALSE])
          /\ UNCHANGED <<resources, bookings>>
  /\ UNCHANGED <<bookingSeq, now, resourceSeq>>

\* DELETE FROM bookings ... ('SUCCESS','CANCEL')
DeleteTerminalBookings(p, ok) ==
  /\ procs[p].pc = "terminalBookings"
  /\ IF ~ok THEN ToCatch(p)
     ELSE /\ procs' = [procs EXCEPT
                         ![p].pc = "resourceRow",
                         ![p].delB = {b.id : b \in TerminalRows(bookings,
                                                     ToNumber(procs[p].r.id))}]
          /\ UNCHANGED <<resources, bookings, client, req, res>>
  /\ UNCHANGED <<bookingSeq, now, resourceSeq>>

\* DELETE FROM resources WHERE id = $1, and the test of its rowCount
DeleteResourceStatement(p, ok) ==
  /\ procs[p].pc = "resourceRow"
  /\ IF ~ok THEN ToCatch(p)
     ELSE /\ IF ResourceRows(resources, ToNumber(procs[p].r.id)) = {}
               THEN procs' = [procs EXCEPT ![p].pc = "notFoundRollback"]
               ELSE procs' = [procs EXCEPT ![p].pc = "commitTx",
                                           ![p].delR = {ToNumber(procs[p].r.id)}]
          /\ UNCHANGED <<resources, bookings, client, req, res>>
  /\ UNCHANGED <<bookingSeq, now, resourceSeq>>

\* client.query('ROLLBACK') and the 404
DeleteNotFoundRollback(p, ok) ==
  /\ procs[p].pc = "notFoundRollback"
  /\ IF ~ok THEN ToCatch(p)
     ELSE /\ Finish(p, 404, "not found")
          /\ client' = Release([client EXCEPT !.tx = FALSE])
          /\ UNCHANGED <<resources, bookings>>
  /\ UNCHANGED <<bookingSeq, now, resourceSeq>>

\* client.query('COMMIT') and the 204
DeleteCommitTx(p, ok) ==
  /\ procs[p].pc = "commitTx"
  /\ IF ~ok THEN ToCatch(p)
     ELSE /\ bookings' = {b \in bookings : b.id \notin procs[p].delB}
          /\ resources' = {r \in resources : r.id \notin procs[p].delR}
          /\ Finish(p, 204, "")
          /\ client' = Release([client EXCEPT !.tx = FALSE])
  /\ UNCHANGED <<bookingSeq, now, resourceSeq>>

\* the catch block: try { await client.query('ROLLBACK') } catch {}, then the
\* 500, then the finally block.  A ROLLBACK that fails is ignored and leaves
\* the transaction as it was.
DeleteCatch(p, ok) ==
  /\ procs[p].pc = "catch"
  /\ Finish(p, 500, "Server error")
  /\ client' = Release([client EXCEPT !.tx = IF ok THEN FALSE ELSE @])
  /\ UNCHANGED <<resources, bookings, bookingSeq, now, resourceSeq>>

\* POST /api/bookings when its conflict query or its INSERT fails: the catch
\* block answers 500
PostBookingsFails(body) ==
  /\ CreateValidation(body) = ""
  /\ Respond(CreateRequest(body), 500, "Server error")
  /\ UNCHANGED <<resources, bookings, bookingSeq, now, procs, resourceSeq, client>>

\* start, finish or cancel when the UPDATE fails: the catch block answers 500
PostBookingTransitionFails(op, sess, id) ==
  /\ requireAuth(sess) = 0
  /\ Respond(BookingRequest(op, sess, id), 500, "Server error")
  /\ UNCHANGED <<resources, bookings, bookingSeq, now, procs, resourceSeq, client>>

\* ------------------------------------------------------------------------
\* Requests handled one at a time, any store call of which may fail; a
\* request whose failure left its handler stays unanswered
\* ------------------------------------------------------------------------
FailProcs == {"h1"}
FailIdInputs == {"1", "3", "x"}
FailHardInputs == {"", "true"}
TransitionOps == {"start", "finish", "cancel"}

\* no handler is in flight
Idle == \A p \in Procs : procs[p].pc = "idle"

NextFail ==
  \/ Idle /\ PostBookings(BaseBody)
  \/ Idle /\ PostBookingsFails(BaseBody)
  \/ Idle /\ \E b \in bookings : b.status = "REQUEST" /\ PostBookingStart("STAFF", b.id)
  \/ Idle /\ \E b \in bookings : b.status = "ONGOING" /\ PostBookingFinish("STAFF", b.id)
  \/ Idle /\ \E b \in bookings : b.status \in ActiveStatuses /\ PostBookingCancel("ADMIN", b.id)
  \/ Idle /\ \E op \in TransitionOps, id \in BookingIdInputs :
               PostBookingTransitionFails(op, "STAFF", id)
  \/ \E p \in FailProcs, idParam \in FailIdInputs, hardQ \in FailHardInputs,
        ok \in BOOLEAN : Idle /\ DeleteConnect(p, "ADMIN", idParam, hardQ, ok)
  \/ \E p \in FailProcs, ok \in BOOLEAN : DeleteSoftUpdate(p, ok)
  \/ \E p \in FailProcs, ok \in BOOLEAN : DeleteBeginTx(p, ok)
  \/ \E p \in FailProcs, ok \in BOOLEAN : DeleteActiveCheck(p, ok)
  \/ \E p \in FailProcs, ok \in BOOLEAN : DeleteInUseRollback(p, ok)
  \/ \E p \in FailProcs, ok \in BOOLEAN : DeleteTerminalBookings(p, ok)
  \/ \E p \in FailProcs, ok \in BOOLEAN : DeleteResourceStatement(p, ok)
  \/ \E p \in FailProcs, ok \in BOOLEAN : DeleteNotFoundRollback(p, ok)
  \/ \E p \in FailProcs, ok \in BOOLEAN : DeleteCommitTx(p, ok)
  \/ \E p \in FailProcs, ok \in BOOLEAN : DeleteCatch(p, ok)

SpecFail == Init /\ [][NextFail]_vars

\* ------------------------------------------------------------------------
\* Claims on failing store calls (SpecFail)
\* ------------------------------------------------------------------------
\* C15: no failure of a store call leaves the handler it occurred in: no
\* request is ever left with its handler gone and no response sent, and
\* every step in which a handler finishes sends a response with a status
\* code.
C15_NoFailureEscapes ==
  /\ [](\A p \in Procs : procs[p].pc # "escaped")
  /\ [][\A p \in Procs :
          (procs[p].pc # "idle" /\ procs'[p].pc = "idle") =>
            (req' = procs[p].r /\ res'.code \in {204, 404, 409, 500})]_vars

\* C19: a connection in the pool has no transaction open on it, and every
\* step in which the delete handler finishes with a connection checked out
\* has released it exactly once, with no transaction left open on it.
C19_ReleasedOnceNoOpenTx ==
  /\ [](~client.out => ~client.tx)
  /\ [][(client.out /\ ~client'.out) =>
          (client'.released = 1 /\ ~client'.tx)]_vars

====
